---------------------------- MODULE Spec2Model ----------------------------
(***************************************************************************)
(* Model of add_emergency_requests.py: a script that loads                 *)
(* api_gateway/simulation_data.json, appends two generated emergency       *)
(* requests to every building of data['edificios'], writes the document    *)
(* back and prints statistics.                                             *)
(*                                                                         *)
(* JSON objects are records (a missing key is a missing field), JSON       *)
(* arrays are sequences.  Accented characters of the description strings   *)
(* are written without the accent.                                         *)
(***************************************************************************)
EXTENDS Integers, Sequences, FiniteSets, TLC

VARIABLES
    pc,                      \* position of the script
    disk,                    \* content of api_gateway/simulation_data.json
    disk0,                   \* content of the file when the run started
    data,                    \* local `data` (<<>> until loaded, else <<document>>)
    idx,                     \* number of buildings the for loop has completed
    total_emergencies_added, \* local counter
    generated,               \* per completed building, the two generated requests
    ret,                     \* outcome of add_emergency_requests_to_simulation()
    exit_status,             \* exit status of the process (-1 while running)
    out,                     \* tags of the lines printed so far
    reported_total,          \* the total printed at line 142 (-1: not printed)
    reads,                   \* times the file was opened for reading
    opens_w,                 \* times the file was opened for writing
    io_error,                \* which I/O step of the save failed, if any
    genArgs,                 \* arguments of a direct generate_emergency_request call
    genResult,               \* <<>> or <<the request it returned>>
    bldArg,                  \* a building handed to one pass of the loop body
    bldResult                \* <<>> or <<[building, requests] after that pass>>

vars == <<pc, disk, disk0, data, idx, total_emergencies_added, generated, ret,
          exit_status, out, reported_total, reads, opens_w, io_error,
          genArgs, genResult, bldArg, bldResult>>

runVars == <<pc, disk, disk0, data, idx, total_emergencies_added, generated, ret,
             exit_status, out, reported_total, reads, opens_w, io_error>>

-----------------------------------------------------------------------------
(* Program constants *)

\* emergency_types, lines 81-87
emergency_types ==
    <<"EMERGENCY_STOP", "POWER_FAILURE", "PEOPLE_TRAPPED",
      "MECHANICAL_FAILURE", "FIRE_ALARM">>

\* descriptions, lines 40-46
descriptions ==
    [t \in {"EMERGENCY_STOP", "POWER_FAILURE", "PEOPLE_TRAPPED",
            "MECHANICAL_FAILURE", "FIRE_ALARM"} |->
       CASE t = "EMERGENCY_STOP"     -> "Boton de emergencia activado por usuario"
         [] t = "POWER_FAILURE"      -> "Perdida de suministro electrico principal"
         [] t = "PEOPLE_TRAPPED"     -> "Personas atrapadas entre pisos"
         [] t = "MECHANICAL_FAILURE" -> "Fallo en sistema de traccion"
         [] t = "FIRE_ALARM"         -> "Deteccion de humo en shaft del ascensor"]

\* the default of descriptions.get, line 55
DefaultDescription == "Emergencia no especificada"

\* random.randint(0, 2) and range(3), lines 118 and 122
MaxElevator == 2

\* random.randint(0, 9) and range(10), lines 119 and 123
MaxFloor == 9

\* random.randint(0, 9) of the elevator states, lines 60, 65, 70
MaxStateFloor == 9

\* random.randint(10, 300), line 36
MinMinutes == 10
MaxMinutes == 300

-----------------------------------------------------------------------------
(* Helpers *)

Range(s) == {s[i] : i \in 1..Len(s)}

HasKey(obj, k) == k \in DOMAIN obj

\* dict.get that never finds the key
DictGetAlwaysDefault(d, k, default) == default

\* dict.get(key, default)
DictGet(d, k, default) == IF k \in DOMAIN d THEN d[k] ELSE default

\* format spec 02d for a non-negative integer
Format02d(n) == IF n < 10 THEN "0" \o ToString(n) ELSE ToString(n)

\* f"ASC_{building_id}_{elevator_index:02d}", lines 51, 58, 63, 68
AscensorId(building_id, elevator_index) ==
    "ASC_" \o building_id \o "_" \o Format02d(elevator_index)

-----------------------------------------------------------------------------
(* generate_emergency_request, lines 21-73.  rnd carries what the call     *)
(* reads from the clock and the random source: base_time (minutes),        *)
(* random_minutes, and the three piso_actual draws.  The timestamp is kept *)
(* as the minute count that isoformat() renders.                           *)

\* an elevator state whose availability test is inverted
ElevatorStateEntryInverted(building_id, elevator_index, i, piso) ==
    [id_ascensor |-> "ASC_" \o building_id \o "_" \o Format02d(i),
     disponible  |-> (elevator_index = i),
     piso_actual |-> piso]

ElevatorStateEntry(building_id, elevator_index, i, piso) ==
    [id_ascensor |-> AscensorId(building_id, i),
     disponible  |-> (elevator_index # i),
     piso_actual |-> piso]

generate_emergency_request(building_id, emergency_type, elevator_index, current_floor, rnd) ==
    [tipo                   |-> "llamada_emergencia",
     id_edificio            |-> building_id,
     ascensor_id_emergencia |-> AscensorId(building_id, elevator_index),
     tipo_emergencia        |-> emergency_type,
     piso_actual_emergencia |-> current_floor,
     timestamp_emergencia   |-> rnd.base_time + rnd.random_minutes,
     descripcion_emergencia |-> DictGet(descriptions, emergency_type,
                                        DefaultDescription),
     elevadores_estado      |->
        <<ElevatorStateEntry(building_id, elevator_index, 0, rnd.pisos[1]),
          ElevatorStateEntry(building_id, elevator_index, 1, rnd.pisos[2]),
          ElevatorStateEntry(building_id, elevator_index, 2, rnd.pisos[3])>>]

\* every outcome of the three piso_actual draws
StateFloorDraws == [1..3 -> 0..MaxStateFloor]

\* the clock reading used by the model, and the extreme minute offsets
BaseTimes == {0}
MinuteDraws == {MinMinutes, MaxMinutes}

AllRnd == [base_time : BaseTimes, random_minutes : MinuteDraws,
           pisos : StateFloorDraws]


-----------------------------------------------------------------------------
(* One pass of the for loop, lines 108-140 *)

\* [t for t in emergency_types if t != emergency_1_type], line 115
SecondTypeCandidates(emergency_1_type) ==
    SelectSeq(emergency_types, LAMBDA t : t # emergency_1_type)

\* the candidate list of the second elevator without its filter
SecondElevatorUnfiltered(elevator_1) ==
    [k \in 1..(MaxElevator + 1) |-> k - 1]

\* [i for i in range(3) if i != elevator_1], line 122
SecondElevatorCandidates(elevator_1) ==
    SelectSeq([k \in 1..(MaxElevator + 1) |-> k - 1], LAMBDA i : i # elevator_1)

\* [f for f in range(10) if f != floor_1], line 123
SecondFloorCandidates(floor_1) ==
    SelectSeq([k \in 1..(MaxFloor + 1) |-> k - 1], LAMBDA f : f # floor_1)

\* The outcomes of the random draws of one pass (lines 114-123 and the two
\* generate_emergency_request calls), with the draws taken among the types
\* T, the elevators E, the floors F and the clock/random readings R.
LoopDraws(T, E, F, R) ==
    {d \in [emergency_1_type : Range(emergency_types) \cap T,
            emergency_2_type : T,
            elevator_1 : (0..MaxElevator) \cap E,
            floor_1 : (0..MaxFloor) \cap F,
            elevator_2 : E,
            floor_2 : F,
            rnd_1 : R,
            rnd_2 : R] :
        /\ d.emergency_2_type \in Range(SecondTypeCandidates(d.emergency_1_type))
        /\ d.elevator_2 \in Range(SecondElevatorCandidates(d.elevator_1))
        /\ d.floor_2 \in Range(SecondFloorCandidates(d.floor_1))}

\* lines 126-132
GeneratedPair(building_id, d) ==
    <<generate_emergency_request(building_id, d.emergency_1_type,
                                 d.elevator_1, d.floor_1, d.rnd_1),
      generate_emergency_request(building_id, d.emergency_2_type,
                                 d.elevator_2, d.floor_2, d.rnd_2)>>

\* an assignment of the two requests in place of extend
ReplacePeticiones(building, reqs) ==
    [building EXCEPT !.peticiones = reqs]

\* building['peticiones'].extend([...]), line 135
ExtendPeticiones(building, reqs) ==
    [building EXCEPT !.peticiones = @ \o reqs]

\* The whole pass on one building: a KeyError at line 109 or at line 135
\* leaves the building as it was.
LoopBody(building, d) ==
    IF ~HasKey(building, "id_edificio")
    THEN [raised |-> TRUE, building |-> building, requests |-> <<>>]
    ELSE LET reqs == GeneratedPair(building.id_edificio, d)
         IN  IF ~HasKey(building, "peticiones")
             THEN [raised |-> TRUE, building |-> building, requests |-> <<>>]
             ELSE [raised |-> FALSE,
                   building |-> ExtendPeticiones(building, reqs),
                   requests |-> reqs]

-----------------------------------------------------------------------------
(* Input documents *)

\* pre-existing requests: two of other variants, a stored emergency call,
\* one without 'tipo', one emergency call without 'tipo_emergencia'
ReqLlamadaPiso ==
    [tipo |-> "llamada_piso", id_edificio |-> "E002", piso_origen |-> "3"]
ReqSolicitudCabina ==
    [tipo |-> "solicitud_cabina", id_edificio |-> "E002", piso_destino |-> "7"]
ReqEmergenciaPrevia ==
    [tipo |-> "llamada_emergencia", id_edificio |-> "E002",
     tipo_emergencia |-> "FIRE_ALARM"]
ReqSinTipo ==
    [id_edificio |-> "E003", piso_origen |-> "1"]
ReqEmergenciaSinTipoEmergencia ==
    [tipo |-> "llamada_emergencia", id_edificio |-> "E004"]

\* buildings with both keys the loop reads
WellFormedBuildings ==
    {[id_edificio |-> "E001", nombre |-> "Torre A", peticiones |-> <<>>],
     [id_edificio |-> "E002", nombre |-> "Torre B",
      peticiones |-> <<ReqLlamadaPiso, ReqSolicitudCabina, ReqEmergenciaPrevia>>],
     [id_edificio |-> "E003", nombre |-> "Torre C", peticiones |-> <<ReqSinTipo>>],
     [id_edificio |-> "E004", nombre |-> "Torre D",
      peticiones |-> <<ReqEmergenciaSinTipoEmergencia>>]}

\* buildings without 'peticiones' or without 'id_edificio'
MalformedBuildings ==
    {[id_edificio |-> "E005", nombre |-> "Torre E"],
     [nombre |-> "Torre F", peticiones |-> <<>>]}

BuildingSamples == WellFormedBuildings \cup MalformedBuildings

-----------------------------------------------------------------------------
(* Direct calls of generate_emergency_request *)

GenInputs ==
    [building_id : {"E001"},
     emergency_type : Range(emergency_types),
     elevator_index : 0..(MaxElevator + 1),
     current_floor : 0..MaxFloor]

-----------------------------------------------------------------------------
(* The state of a script that is not running *)

RunIdle ==
    /\ pc = "idle"
    /\ disk = [kind |-> "absent", content |-> <<>>]
    /\ disk0 = [kind |-> "absent", content |-> <<>>]
    /\ data = <<>>
    /\ idx = 0
    /\ total_emergencies_added = 0
    /\ generated = <<>>
    /\ ret = "none"
    /\ exit_status = -1
    /\ out = <<>>
    /\ reported_total = -1
    /\ reads = 0
    /\ opens_w = 0
    /\ io_error = "none"

NoGenCall == genArgs = <<>> /\ genResult = <<>>
NoBldCall == bldArg = <<>> /\ bldResult = <<>>

-----------------------------------------------------------------------------
(* Specification of generate_emergency_request alone *)

InitGen ==
    /\ RunIdle
    /\ NoBldCall
    /\ \E a \in GenInputs : genArgs = <<a>>
    /\ genResult = <<>>

GenCall ==
    /\ genResult = <<>>
    /\ \E rnd \in AllRnd :
         genResult' = <<generate_emergency_request(
                            genArgs[1].building_id, genArgs[1].emergency_type,
                            genArgs[1].elevator_index, genArgs[1].current_floor,
                            rnd)>>
    /\ UNCHANGED <<runVars, genArgs, bldArg, bldResult>>

NextGen == GenCall

SpecGen == InitGen /\ [][NextGen]_vars

-----------------------------------------------------------------------------
(* Specification of one pass of the loop body over every outcome of the    *)
(* draws of lines 114-123                                                  *)

RndSamples ==
    {[base_time |-> 0, random_minutes |-> MinMinutes, pisos |-> <<0, 0, 0>>],
     [base_time |-> 0, random_minutes |-> MaxMinutes,
      pisos |-> <<MaxStateFloor, 4, 0>>]}

AllLoopDraws ==
    LoopDraws(Range(emergency_types), 0..MaxElevator, 0..MaxFloor, RndSamples)

InitBld ==
    /\ RunIdle
    /\ NoGenCall
    /\ \E b \in BuildingSamples : bldArg = <<b>>
    /\ bldResult = <<>>

BldPass ==
    /\ bldResult = <<>>
    /\ \E d \in AllLoopDraws :
         bldResult' = <<[draw |-> d, pass |-> LoopBody(bldArg[1], d)]>>
    /\ UNCHANGED <<runVars, genArgs, genResult, bldArg>>

NextBld == BldPass

SpecBld == InitBld /\ [][NextBld]_vars

-----------------------------------------------------------------------------
(* The script run as a program, lines 177-188 calling lines 75-175 *)

\* largest number of buildings in an input document
MaxBuildings == 2

\* parsed documents: an 'edificios' array of up to MaxBuildings buildings and
\* a sibling key the script does not know, or an object without 'edificios'
Documents ==
    {[version |-> "1.0", edificios |-> e] :
        e \in UNION {[1..n -> BuildingSamples] : n \in 0..MaxBuildings}}
    \cup {[version |-> "1.0"]}

\* what api_gateway/simulation_data.json can hold when the script starts
InputFiles ==
    {[kind |-> "absent", content |-> <<>>],
     [kind |-> "invalid", content |-> <<>>]}
    \cup {[kind |-> "doc", content |-> <<doc>>] : doc \in Documents}

\* the draws followed in whole runs: first and last emergency type,
\* elevator and floor, one reading of the clock and the state floors
RunDraws ==
    LoopDraws({emergency_types[1], emergency_types[Len(emergency_types)]},
              {0, MaxElevator}, {0, MaxFloor},
              {[base_time |-> 0, random_minutes |-> MinMinutes,
                pisos |-> <<0, MaxStateFloor, 4>>]})

Init ==
    /\ pc = "start"
    /\ disk0 \in InputFiles
    /\ disk = disk0
    /\ data = <<>>
    /\ idx = 0
    /\ total_emergencies_added = 0
    /\ generated = <<>>
    /\ ret = "none"
    /\ exit_status = -1
    /\ out = <<>>
    /\ reported_total = -1
    /\ reads = 0
    /\ opens_w = 0
    /\ io_error = "none"
    /\ NoGenCall
    /\ NoBldCall

callVars == <<genArgs, genResult, bldArg, bldResult>>

\* lines 178-181, 89, 92-97: open raises FileNotFoundError
LoadNotFound ==
    /\ pc = "start"
    /\ disk.kind = "absent"
    /\ reads' = reads + 1
    /\ out' = out \o <<"inicio", "cargando", "error_no_encontrado">>
    /\ ret' = "False"
    /\ pc' = "returned"
    /\ UNCHANGED <<disk, disk0, data, idx, total_emergencies_added, generated,
                   exit_status, reported_total, opens_w, io_error, callVars>>

\* a load that takes unparsable content for an empty document and goes on
LoadInvalidJSONAsEmpty ==
    /\ pc = "start"
    /\ disk.kind = "invalid"
    /\ reads' = reads + 1
    /\ data' = <<[edificios |-> <<>>]>>
    /\ out' = out \o <<"inicio", "cargando", "cargado">>
    /\ pc' = "loop"
    /\ UNCHANGED <<disk, disk0, idx, total_emergencies_added, generated, ret,
                   exit_status, reported_total, opens_w, io_error,
                   genArgs, genResult, bldArg, bldResult>>

\* lines 178-181, 89, 92-94, 98-100: json.load raises JSONDecodeError
LoadInvalidJSON ==
    /\ pc = "start"
    /\ disk.kind = "invalid"
    /\ reads' = reads + 1
    /\ out' = out \o <<"inicio", "cargando", "error_json">>
    /\ ret' = "False"
    /\ pc' = "returned"
    /\ UNCHANGED <<disk, disk0, data, idx, total_emergencies_added, generated,
                   exit_status, reported_total, opens_w, io_error, callVars>>

\* lines 178-181, 89, 92-94, 102-105: the document is parsed
LoadOk ==
    /\ pc = "start"
    /\ disk.kind = "doc"
    /\ HasKey(disk.content[1], "edificios")
    /\ reads' = reads + 1
    /\ data' = disk.content
    /\ out' = out \o <<"inicio", "cargando", "cargado">>
    /\ total_emergencies_added' = 0
    /\ pc' = "loop"
    /\ UNCHANGED <<disk, disk0, idx, generated, ret, exit_status,
                   reported_total, opens_w, io_error, callVars>>

\* lines 178-181, 89, 92-94, 102: data['edificios'] raises KeyError
LoadNoEdificios ==
    /\ pc = "start"
    /\ disk.kind = "doc"
    /\ ~HasKey(disk.content[1], "edificios")
    /\ reads' = reads + 1
    /\ data' = disk.content
    /\ out' = out \o <<"inicio", "cargando">>
    /\ ret' = "KeyError"
    /\ pc' = "raised"
    /\ UNCHANGED <<disk, disk0, idx, total_emergencies_added, generated,
                   exit_status, reported_total, opens_w, io_error, callVars>>

\* a loop that stops one building early
MoreBuildingsButLast(i, edificios) == i < Len(edificios) - 1

\* the for loop of line 108 has a next building
MoreBuildings(i, edificios) == i < Len(edificios)

\* lines 108-140 on a building that has both keys
LoopStep ==
    /\ pc = "loop"
    /\ MoreBuildings(idx, data[1].edificios)
    /\ \E d \in RunDraws :
         LET r == LoopBody(data[1].edificios[idx + 1], d)
         IN  /\ ~r.raised
             /\ data' = <<[data[1] EXCEPT !.edificios[idx + 1] = r.building]>>
             /\ generated' = Append(generated, r.requests)
    /\ total_emergencies_added' = total_emergencies_added + 2
    /\ idx' = idx + 1
    /\ out' = out \o <<"procesando", "anadidas">>
    /\ UNCHANGED <<pc, disk, disk0, ret, exit_status, reported_total, reads,
                   opens_w, io_error, callVars>>

\* lines 108-135 on a building without 'id_edificio' (KeyError at line 109)
\* or without 'peticiones' (KeyError at line 135)
LoopKeyError ==
    /\ pc = "loop"
    /\ MoreBuildings(idx, data[1].edificios)
    /\ \E d \in RunDraws :
         LET r == LoopBody(data[1].edificios[idx + 1], d)
         IN  /\ r.raised
             /\ data' = <<[data[1] EXCEPT !.edificios[idx + 1] = r.building]>>
    /\ out' = IF HasKey(data[1].edificios[idx + 1], "id_edificio")
              THEN Append(out, "procesando") ELSE out
    /\ ret' = "KeyError"
    /\ pc' = "raised"
    /\ UNCHANGED <<disk, disk0, idx, total_emergencies_added, generated,
                   exit_status, reported_total, reads, opens_w, io_error,
                   callVars>>

\* lines 142-145: the loop is exhausted
LoopExit ==
    /\ pc = "loop"
    /\ ~MoreBuildings(idx, data[1].edificios)
    /\ reported_total' = total_emergencies_added
    /\ out' = out \o <<"total", "guardando">>
    /\ pc' = "save"
    /\ UNCHANGED <<disk, disk0, data, idx, total_emergencies_added, generated,
                   ret, exit_status, reads, opens_w, io_error, callVars>>

\* what open(..., 'w') leaves on disk: the file truncated to nothing
Truncated == [kind |-> "empty", content |-> <<>>]

\* line 148: the file is opened for writing, which truncates it
OpenWriteOk ==
    /\ pc = "save"
    /\ disk' = Truncated
    /\ opens_w' = opens_w + 1
    /\ pc' = "dump"
    /\ UNCHANGED <<disk0, data, idx, total_emergencies_added, generated, ret,
                   exit_status, out, reported_total, reads, io_error, callVars>>

\* lines 148, 173-175: open raises (permissions, read-only file system)
OpenWriteFail ==
    /\ pc = "save"
    /\ io_error' = "open"
    /\ out' = Append(out, "error_guardando")
    /\ ret' = "False"
    /\ pc' = "returned"
    /\ UNCHANGED <<disk, disk0, data, idx, total_emergencies_added, generated,
                   exit_status, reported_total, reads, opens_w, callVars>>

\* json.dump(data, f, ...) followed by the close of the with block: the file
\* holds the text of the document, kept as the document that text parses to
Dumped(d) == [kind |-> "doc", content |-> d]

\* lines 149-151: the document is written and the file closed
DumpOk ==
    /\ pc = "dump"
    /\ disk' = Dumped(data)
    /\ out' = Append(out, "guardado")
    /\ pc' = "stats"
    /\ UNCHANGED <<disk0, data, idx, total_emergencies_added, generated, ret,
                   exit_status, reported_total, reads, opens_w, io_error,
                   callVars>>

\* lines 149, 173-175: a write or the closing flush raises (disk full, I/O
\* error) with nothing or only a prefix of the text on disk
DumpFail ==
    /\ pc = "dump"
    /\ \E k \in {"empty", "partial"} : disk' = [kind |-> k, content |-> <<>>]
    /\ io_error' = "dump"
    /\ out' = Append(out, "error_guardando")
    /\ ret' = "False"
    /\ pc' = "returned"
    /\ UNCHANGED <<disk0, data, idx, total_emergencies_added, generated,
                   exit_status, reported_total, reads, opens_w, callVars>>

\* lines 161-165 raise KeyError: request['tipo'] on a request without
\* 'tipo', or request['tipo_emergencia'] on an emergency call without it
\* (every 'tipo_emergencia' of the model is a string, so the dictionary
\* update and sorted() of line 168 do not raise)
StatsRaises(doc) ==
    \E i \in 1..Len(doc.edificios) :
        LET building == doc.edificios[i]
        IN  IF ~HasKey(building, "peticiones") THEN TRUE
            ELSE \E j \in 1..Len(building.peticiones) :
                    LET request == building.peticiones[j]
                    IN  IF ~HasKey(request, "tipo") THEN TRUE
                        ELSE /\ request.tipo = "llamada_emergencia"
                             /\ ~HasKey(request, "tipo_emergencia")

\* lines 153-171: the statistics are printed
StatsOk ==
    /\ pc = "stats"
    /\ ~StatsRaises(data[1])
    /\ out' = out \o <<"estadisticas", "distribucion">>
    /\ ret' = "True"
    /\ pc' = "returned"
    /\ UNCHANGED <<disk, disk0, data, idx, total_emergencies_added, generated,
                   exit_status, reported_total, reads, opens_w, io_error,
                   callVars>>

\* lines 153-165, 173-175: the statistics loop raises inside the try block
StatsKeyError ==
    /\ pc = "stats"
    /\ StatsRaises(data[1])
    /\ out' = out \o <<"estadisticas", "error_guardando">>
    /\ ret' = "False"
    /\ pc' = "returned"
    /\ UNCHANGED <<disk, disk0, data, idx, total_emergencies_added, generated,
                   exit_status, reported_total, reads, opens_w, io_error,
                   callVars>>

\* the status of a script that runs off its last line
ExitNormal == 0

\* the status of a script ended by an uncaught exception
ExitUncaught == 1

\* lines 183-188: the banner is printed and the script ends
MainEnd ==
    /\ pc = "returned"
    /\ out' = Append(out, IF ret = "True" THEN "completado" ELSE "fallo")
    /\ exit_status' = ExitNormal
    /\ pc' = "exited"
    /\ UNCHANGED <<disk, disk0, data, idx, total_emergencies_added, generated,
                   ret, reported_total, reads, opens_w, io_error, callVars>>

\* an exception left add_emergency_requests_to_simulation: traceback
Crash ==
    /\ pc = "raised"
    /\ out' = Append(out, "traceback")
    /\ exit_status' = ExitUncaught
    /\ pc' = "exited"
    /\ UNCHANGED <<disk, disk0, data, idx, total_emergencies_added, generated,
                   ret, reported_total, reads, opens_w, io_error, callVars>>

Next ==
    \/ LoadNotFound
    \/ LoadInvalidJSON
    \/ LoadOk
    \/ LoadNoEdificios
    \/ LoopStep
    \/ LoopKeyError
    \/ LoopExit
    \/ OpenWriteOk
    \/ OpenWriteFail
    \/ DumpOk
    \/ DumpFail
    \/ StatsOk
    \/ StatsKeyError
    \/ MainEnd
    \/ Crash

Spec == Init /\ [][Next]_vars

-----------------------------------------------------------------------------
(* Properties *)

Doc0 == disk0.content[1]
Doc == data[1]

\* building i of the document in memory is building i of the input with the
\* two requests generated for it appended
Augmented(i) ==
    /\ Len(generated[i]) = 2
    /\ Doc.edificios[i] =
         [Doc0.edificios[i] EXCEPT !.peticiones = @ \o generated[i]]

\* C1: once a run reaches the save step, every one of the B buildings holds
\* its original requests, in order, followed by its two generated requests;
\* the counter and the printed total are 2*B; the order of the buildings
\* and every other field of the document are as loaded.
C1_TwoAppendedPerBuilding ==
    reported_total # -1 =>
        LET B == Len(Doc0.edificios)
        IN  /\ Len(Doc.edificios) = B
            /\ Len(generated) = B
            /\ \A i \in 1..B : Augmented(i)
            /\ total_emergencies_added = 2 * B
            /\ reported_total = 2 * B
            /\ Doc = [Doc0 EXCEPT !.edificios = Doc.edificios]

C1_Witness ==
    /\ pc = "exited"
    /\ ret = "True"
    /\ Len(Doc0.edificios) = 2
    /\ Len(Doc0.edificios[2].peticiones) = 3
    /\ Len(Doc.edificios[2].peticiones) = 5
    /\ reported_total = 4

\* C2: a run in which the write of the output failed ends with the file on
\* disk exactly as it was when the run started.
C2_WriteFailureLeavesFile ==
    (pc = "exited" /\ io_error # "none") => disk = disk0

\* C3: the two requests generated for a building differ in emergency type,
\* in elevator index, in ascensor_id_emergencia and in floor, whatever the
\* draws.
C3_PairDiffers ==
    (bldResult # <<>> /\ ~bldResult[1].pass.raised) =>
        LET d == bldResult[1].draw
            r == bldResult[1].pass.requests
        IN  /\ Len(r) = 2
            /\ r[1].tipo_emergencia # r[2].tipo_emergencia
            /\ d.elevator_1 # d.elevator_2
            /\ r[1].ascensor_id_emergencia # r[2].ascensor_id_emergencia
            /\ r[1].piso_actual_emergencia # r[2].piso_actual_emergencia

C3_Witness ==
    /\ bldResult # <<>>
    /\ ~bldResult[1].pass.raised
    /\ bldResult[1].draw.elevator_1 = MaxElevator
    /\ bldResult[1].draw.floor_1 = MaxFloor
    /\ bldResult[1].pass.requests[2].ascensor_id_emergencia = "ASC_E002_00"

\* C4: a request generated for an elevator index in 0..2 carries three
\* elevator states, for the indices 0, 1, 2 in that order; exactly one is not
\* available, and it is the one whose id is the request's
\* ascensor_id_emergencia.
C4_OneUnavailableElevator ==
    (genResult # <<>> /\ genArgs[1].elevator_index \in 0..2) =>
        LET r == genResult[1]
            es == r.elevadores_estado
        IN  /\ Len(es) = 3
            /\ \A i \in 1..3 :
                  es[i].id_ascensor =
                      "ASC_" \o r.id_edificio \o "_0" \o ToString(i - 1)
            /\ Cardinality({i \in 1..3 : ~es[i].disponible}) = 1
            /\ \A i \in 1..3 :
                  es[i].disponible <=>
                      es[i].id_ascensor # r.ascensor_id_emergencia

C4_Witness ==
    /\ genResult # <<>>
    /\ genArgs[1].elevator_index = 2
    /\ ~genResult[1].elevadores_estado[3].disponible
    /\ genResult[1].elevadores_estado[1].disponible
    /\ genResult[1].ascensor_id_emergencia = "ASC_E001_02"

\* C5: when the file is absent or is not valid JSON, the run prints the
\* diagnostic and returns False without loading a document, without any
\* pass of the loop and without opening the file for writing: the file
\* stays as it was.
C5_LoadFailureStops ==
    disk0.kind \in {"absent", "invalid"} =>
        /\ disk = disk0
        /\ opens_w = 0
        /\ data = <<>>
        /\ idx = 0
        /\ generated = <<>>
        /\ pc \in {"start", "returned", "exited"}
        /\ pc # "start" =>
              /\ ret = "False"
              /\ \/ (disk0.kind = "absent" /\ out[3] = "error_no_encontrado")
                 \/ (disk0.kind = "invalid" /\ out[3] = "error_json")

C5_Witness ==
    /\ disk0.kind = "invalid"
    /\ pc = "exited"
    /\ ret = "False"
    /\ out = <<"inicio", "cargando", "error_json", "fallo">>

\* C6: a document with a building that has no 'peticiones' ends as a handled
\* failure (False returned after a diagnostic, as for invalid JSON), with no
\* building changed in memory and the file not written.
C6_MalformedIsHandled ==
    (/\ pc = "exited"
     /\ disk0.kind = "doc"
     /\ HasKey(Doc0, "edificios")
     /\ \E i \in 1..Len(Doc0.edificios) :
            ~HasKey(Doc0.edificios[i], "peticiones")) =>
        /\ ret = "False"
        /\ data = disk0.content
        /\ disk = disk0
        /\ opens_w = 0

\* C7: a run that ended without having loaded, augmented and saved the file
\* has printed a diagnostic and has a non-zero exit status; the status is 0
\* only when the file was saved.
C7_FailureExitsNonZero ==
    pc = "exited" =>
        /\ ret # "True" =>
              /\ exit_status # 0
              /\ \E k \in 1..Len(out) :
                    out[k] \in {"error_no_encontrado", "error_json",
                                "error_guardando", "traceback"}
        /\ exit_status = 0 => (ret = "True" /\ disk = Dumped(data))

\* C8: each generated request has one of the five emergency types, the
\* description mapped to that type (never the fallback string), and the
\* id_edificio of the building it is appended to.
C8_TypeDescriptionBuilding ==
    (bldResult # <<>> /\ ~bldResult[1].pass.raised) =>
        LET b == bldResult[1].pass.building
            n == Len(b.peticiones)
        IN  /\ n = Len(bldArg[1].peticiones) + 2
            /\ \A k \in {n - 1, n} :
                  LET r == b.peticiones[k]
                  IN  /\ r.tipo_emergencia \in
                            {"EMERGENCY_STOP", "POWER_FAILURE", "PEOPLE_TRAPPED",
                             "MECHANICAL_FAILURE", "FIRE_ALARM"}
                      /\ r.descripcion_emergencia = descriptions[r.tipo_emergencia]
                      /\ r.descripcion_emergencia # "Emergencia no especificada"
                      /\ r.id_edificio = bldArg[1].id_edificio
                      /\ r.id_edificio = b.id_edificio

C8_Witness ==
    /\ bldResult # <<>>
    /\ ~bldResult[1].pass.raised
    /\ bldArg[1].id_edificio = "E004"
    /\ bldResult[1].pass.building.peticiones[3].tipo_emergencia = "FIRE_ALARM"
    /\ bldResult[1].pass.building.peticiones[3].descripcion_emergencia
          = "Deteccion de humo en shaft del ascensor"
    /\ bldResult[1].pass.building.peticiones[3].id_edificio = "E004"

\* C9: the file is opened for reading once, before anything else; the
\* buildings are augmented one after the other in document order; the file
\* is opened for writing at most once, and only when every building has
\* received its two requests; until then the file is as it was, and what is
\* written is the fully augmented document.
C9_LoadAugmentSave ==
    /\ reads = (IF pc = "start" THEN 0 ELSE 1)
    /\ opens_w \in {0, 1}
    /\ opens_w = 0 => disk = disk0
    /\ pc \in {"loop", "save", "dump", "stats"} =>
          /\ Len(generated) = idx
          /\ idx <= Len(Doc0.edificios)
          /\ \A i \in 1..Len(Doc0.edificios) :
                IF i <= idx THEN Augmented(i)
                ELSE Doc.edificios[i] = Doc0.edificios[i]
    /\ (opens_w = 1 \/ pc \in {"save", "dump", "stats"}) =>
          /\ idx = Len(Doc0.edificios)
          /\ Len(Doc.edificios) = idx
          /\ \A i \in 1..idx : Augmented(i)
          /\ (opens_w = 1 /\ disk.kind = "doc") => disk.content = data

C9_Witness ==
    /\ pc = "dump"
    /\ opens_w = 1
    /\ reads = 1
    /\ idx = 2
    /\ disk = Truncated
    /\ Len(Doc.edificios[1].peticiones) = 2

\* C10: at the end of a run the returned value agrees with the disk: True
\* when the augmented document was written completely, and the file does
\* not hold the written document when False was returned.
C10_ResultAgreesWithDisk ==
    (pc = "exited" /\ ret \in {"True", "False"}) =>
        /\ (opens_w = 1 /\ disk = Dumped(data)) => ret = "True"
        /\ ret = "False" => ~(opens_w = 1 /\ disk = Dumped(data))

=============================================================================
